---- MODULE Spec2Model ----
(***************************************************************************)
(* scripts/setupTypeScript.js: the one-shot script that converts the       *)
(* Svelte starter template (package.json, src/main.js, src/App.svelte,     *)
(* rollup.config.js) to TypeScript and then removes itself.                *)
(*                                                                         *)
(* The script is straight-line synchronous code; every statement that      *)
(* touches the file system or can throw is one action, in source order.    *)
(* A text file is a sequence of tokens (substrings of the real file); the  *)
(* manifest is the JSON value its text denotes.                            *)
(***************************************************************************)
EXTENDS Naturals, Sequences, FiniteSets

\* ------------------------------------------------------------- bounds
MaxRuns == 2
MaxAppLen == 3
MaxAppSegments == 3
MaxRollupLen == 3
MaxRollupAnchors == 5

\* -------------------------------------------------------------- paths
PackagePath == "package.json"
beforeMainJSPath == "src/main.js"
afterMainTSPath == "src/main.ts"
appSveltePath == "src/App.svelte"
rollupConfigPath == "rollup.config.js"
tsconfigPath == "tsconfig.json"
svelteConfigPath == "svelte.config.js"
dtsPath == "src/global.d.ts"
vscodePath == ".vscode"
extensionsPath == ".vscode/extensions.json"
ScriptFile == "setupTypeScript.js"
ScriptDirPath == "scripts"
\* The name the script compares against, and the name macOS gives the file.
DSStoreLiteral == ".DS_store"
DSStoreMac == ".DS_Store"

TextPaths ==
  { beforeMainJSPath, afterMainTSPath, appSveltePath, rollupConfigPath,
    tsconfigPath, svelteConfigPath, dtsPath, extensionsPath }

\* ------------------------------------------------------- process.argv
\* argv[2]: <<>> when no argument was given, <<s>> when the argument is s.
NoArg == <<>>
ArgValues == { <<>>, <<"">>, <<"test-template">>, <<"..">> }
\* JavaScript truthiness of argv[2]: undefined and "" are falsy.
Truthy(a) == a # <<>> /\ a[1] # ""

\* ------------------------------------------------- String.replace
\* Index of the first occurrence of needle in text, 0 when there is none.
IndexOf(text, needle) ==
  LET n == Len(needle)
      hits == { i \in 1..Len(text) : i + n - 1 <= Len(text)
                                    /\ SubSeq(text, i, i + n - 1) = needle }
  IN  IF hits = {} THEN 0
      ELSE CHOOSE i \in hits : \A j \in hits : i <= j

ReplaceAllOccurrences(text, needle, repl) ==
  LET n == Len(needle)
      F[i \in 1..(Len(text) + 1)] ==
        IF i > Len(text) THEN <<>>
        ELSE IF i + n - 1 <= Len(text) /\ SubSeq(text, i, i + n - 1) = needle
             THEN repl \o F[i + n]
             ELSE <<text[i]>> \o F[i + 1]
  IN  F[1]

\* text.replace(needle, repl) with a string needle: the first occurrence only,
\* the text itself when the needle does not occur.
Replace(text, needle, repl) ==
  LET i == IndexOf(text, needle)
  IN  IF i = 0 THEN text
      ELSE SubSeq(text, 1, i - 1) \o repl
             \o SubSeq(text, i + Len(needle), Len(text))

\* Number of occurrences of needle in text.
Count(text, needle) ==
  Cardinality({ i \in 1..Len(text) :
                  i + Len(needle) - 1 <= Len(text)
                  /\ SubSeq(text, i, i + Len(needle) - 1) = needle })

Contains(text, needle) == IndexOf(text, needle) # 0

\* ------------------------------------------------ App.svelte edits
ScriptTag == << "<script", ">" >>
ScriptTagTS == << "<script", " lang=\"ts\"", ">" >>
ExportName == << "export let name", ";" >>
ExportNameTS == << "export let name", ": string", ";" >>

EditAppDropAnnotation(text) == Replace(text, ScriptTag, ScriptTagTS)

\* Lines 80 and 83.
EditAppText(text) ==
  Replace(Replace(text, ScriptTag, ScriptTagTS), ExportName, ExportNameTS)

\* -------------------------------------------- rollup.config.js edits
CssOnlyAnchor == << "'rollup-plugin-css-only';" >>
ImportLines ==
  << "\nimport sveltePreprocess from 'svelte-preprocess';\nimport typescript from '@rollup/plugin-typescript';" >>
MainJSAnchor == << "'src/main.js'" >>
MainTSString == << "'src/main.ts'" >>
CompilerOptionsAnchor == << "compilerOptions:" >>
PreprocessLine ==
  << "preprocess: sveltePreprocess({ sourceMap: !production }),\n\t\t\t" >>
CommonjsAnchor == << "commonjs()," >>
TypescriptPlugin ==
  << "\n\t\ttypescript({\n\t\t\tsourceMap: !production,\n\t\t\tinlineSources: !production\n\t\t})," >>

EditRollupInsertEverywhere(text) ==
  LET t1 == ReplaceAllOccurrences(text, CssOnlyAnchor, CssOnlyAnchor \o ImportLines)
      t2 == ReplaceAllOccurrences(t1, MainJSAnchor, MainTSString)
      t3 == ReplaceAllOccurrences(t2, CompilerOptionsAnchor,
                                  PreprocessLine \o CompilerOptionsAnchor)
  IN  ReplaceAllOccurrences(t3, CommonjsAnchor, CommonjsAnchor \o TypescriptPlugin)

\* Lines 97-117.
EditRollupText(text) ==
  LET t1 == Replace(text, CssOnlyAnchor, CssOnlyAnchor \o ImportLines)
      t2 == Replace(t1, MainJSAnchor, MainTSString)
      t3 == Replace(t2, CompilerOptionsAnchor,
                    PreprocessLine \o CompilerOptionsAnchor)
  IN  Replace(t3, CommonjsAnchor, CommonjsAnchor \o TypescriptPlugin)

\* ---------------------------------------------- fixed file contents
tsconfig ==
  << "{\n  \"extends\": \"@tsconfig/svelte/tsconfig.json\",\n\n  \"include\": [\"src/**/*\"],\n  \"exclude\": [\"node_modules/*\", \"__sapper__/*\", \"public/*\"]\n}" >>
svelteConfig ==
  << "import sveltePreprocess from 'svelte-preprocess';\n\nexport default {\n  preprocess: sveltePreprocess()\n};\n" >>
dtsText == << "/// <reference types=\"svelte\" />" >>
extensionsText == << "{\n  \"recommendations\": [\"svelte.svelte-vscode\"]\n}\n" >>
ConvertedMessage == "Converted to TypeScript."
ReinstallMessage == "\nYou will need to re-run your dependency manager to get started."

\* ------------------------------------------------------- JSON values
\* A JSON value as far as Object.assign and JSON.stringify tell values
\* apart: a missing property, null, a primitive, an array, or an object
\* (a map from keys to strings).
EmptyMap == [k \in {} |-> ""]
JUndefined == [t |-> "undefined", m |-> EmptyMap]
JNull == [t |-> "null", m |-> EmptyMap]
JPrim == [t |-> "prim", m |-> EmptyMap]
JArray == [t |-> "array", m |-> EmptyMap]
JMap(m) == [t |-> "map", m |-> m]

DevDependenciesToAdd ==
  [k \in { "svelte-check", "svelte-preprocess", "@rollup/plugin-typescript",
           "typescript", "tslib", "@tsconfig/svelte" } |->
     CASE k = "svelte-check" -> "^3.0.0"
       [] k = "svelte-preprocess" -> "^5.0.0"
       [] k = "@rollup/plugin-typescript" -> "^11.0.0"
       [] k = "typescript" -> "^4.9.0"
       [] k = "tslib" -> "^2.5.0"
       [] k = "@tsconfig/svelte" -> "^3.0.0"]
ScriptsToAdd == [k \in {"check"} |-> "svelte-check"]

AssignNeverThrows(target) == FALSE

\* Object.assign(target, source) throws a TypeError on undefined and null.
AssignThrows(target) == target.t \in {"undefined", "null"}

MergeKeepExisting(m, source) ==
  [k \in DOMAIN m \cup DOMAIN source |-> IF k \in DOMAIN m THEN m[k] ELSE source[k]]

\* The own enumerable properties after Object.assign(target, source): the
\* source's keys overwrite, every other key of the target stays.
Merge(m, source) ==
  [k \in DOMAIN m \cup DOMAIN source |-> IF k \in DOMAIN source THEN source[k] ELSE m[k]]

\* Object.assign(target, source) for a target it accepts.  A primitive is
\* boxed and an array keeps its elements; both take the new properties, kept
\* in m, and JSON.stringify (Stringify below) does not write them.
ObjectAssign(target, source) == [t |-> target.t, m |-> Merge(target.m, source)]

\* What JSON.stringify writes for a property value and JSON.parse reads back:
\* a boxed primitive is written as the primitive, an array as its elements.
Stringify(v) == IF v.t = "map" THEN v ELSE [t |-> v.t, m |-> EmptyMap]

\* -------------------------------------------------------------- state
VARIABLES
  pc,              \* the statement the script is at
  failedAt,        \* the statement whose error ended the run, "" if none
  run,             \* number of invocations so far
  argv2,           \* process.argv[2]
  pkg,             \* package.json on disk
  disk,            \* the text files of the project root, by path
  vscode,          \* .vscode: "absent", "dir" or "file"
  nodeModules,     \* whether node_modules exists in the project root
  scriptDir,       \* the entries of the directory holding the script
  scriptDirExists, \* whether that directory exists
  denied,          \* the path the platform refuses to write or remove, or "none"
  packageJSON,     \* the script's packageJSON object
  appFile,         \* the script's appFile string
  rollupConfig,    \* the script's rollupConfig string
  out,             \* the lines written by console.log in this run
  orig             \* the disk as it was when this run started, and how the
                   \* run before it had ended

vars ==
  << pc, failedAt, run, argv2, pkg, disk, vscode, nodeModules, scriptDir,
     scriptDirExists, denied, packageJSON, appFile, rollupConfig, out, orig >>

Absent == <<>>
File(text) == << text >>
Exists(f) == f # Absent

Manifest(kind, dev, scripts, name) ==
  [kind |-> kind, dev |-> dev, scripts |-> scripts, name |-> name]
NoManifest(kind) == Manifest(kind, JUndefined, JUndefined, <<>>)

Snapshot ==
  [after |-> pc, pkg |-> pkg, disk |-> disk, vscode |-> vscode,
   scriptDir |-> scriptDir, scriptDirExists |-> scriptDirExists]

\* ------------------------------------------------------------- inputs
BoundedSeq(S, n) == UNION { [1..k -> S] : k \in 0..n }
MapsOver(keys, vals) == UNION { [d -> vals] : d \in SUBSET keys }

AppTokens ==
  { "<script", ">", " lang=\"ts\"", "export let name", ";", ": string", "x" }
AppTemplate == << "<script", ">", "x", "export let name", ";", "x" >>
\* The tags and declarations the edits read and write, and other text.
AppSegments == { ScriptTag, ScriptTagTS, ExportName, ExportNameTS, << "x" >> }
Flatten(ss) ==
  LET F[i \in 0..Len(ss)] == IF i = 0 THEN <<>> ELSE F[i - 1] \o ss[i]
  IN  F[Len(ss)]
AppInputs ==
  BoundedSeq(AppTokens, MaxAppLen)
    \cup { Flatten(ss) : ss \in BoundedSeq(AppSegments, MaxAppSegments) }
    \cup { AppTemplate }

\* rollup.config.js of the template: the four anchors in their order, and the
\* comment of its input line, which already names 'src/main.ts'.
RollupTemplate ==
  << "x", "'rollup-plugin-css-only';", "x", "'src/main.js'", "x",
     "'src/main.ts'", "x", "compilerOptions:", "x", "commonjs(),", "x" >>
RollupTokens ==
  { CssOnlyAnchor[1], ImportLines[1], MainJSAnchor[1], MainTSString[1],
    CompilerOptionsAnchor[1], PreprocessLine[1], CommonjsAnchor[1],
    TypescriptPlugin[1], "x" }
\* The anchors alone, so that a text can hold all four and one of them twice.
RollupAnchorTokens ==
  { CssOnlyAnchor[1], MainJSAnchor[1], CompilerOptionsAnchor[1],
    CommonjsAnchor[1] }
RollupInputs ==
  BoundedSeq(RollupTokens, MaxRollupLen)
    \cup BoundedSeq(RollupAnchorTokens, MaxRollupAnchors)
    \cup { RollupTemplate }

DevInputs ==
  { JUndefined, JNull, JPrim, JArray }
    \cup { JMap(m) : m \in MapsOver({"rollup", "svelte-check", "typescript"},
                                    {"^0.0.1", "^3.0.0"}) }
ScriptsInputs ==
  { JUndefined, JNull, JPrim, JArray }
    \cup { JMap(m) : m \in MapsOver({"build", "check"},
                                    {"rollup -c", "svelte-check"}) }
ManifestTemplate ==
  Manifest("object", JMap([k \in {"rollup"} |-> "^3.0.0"]),
           JMap([k \in {"build"} |-> "rollup -c"]), << "svelte-app" >>)
ManifestInputs ==
  { NoManifest("absent"), NoManifest("malformed"), NoManifest("nonobject") }
    \cup { Manifest("object", d, s, n) :
             d \in DevInputs, s \in ScriptsInputs, n \in { <<>>, << "svelte-app" >> } }

MainJSText == << "import App from './App.svelte';" >>
DiskTemplate ==
  [p \in TextPaths |->
     CASE p = beforeMainJSPath -> File(MainJSText)
       [] p = appSveltePath -> File(AppTemplate)
       [] p = rollupConfigPath -> File(RollupTemplate)
       [] OTHER -> Absent]

DeniablePaths ==
  { PackagePath, appSveltePath, rollupConfigPath, tsconfigPath, svelteConfigPath,
    dtsPath, ScriptFile, DSStoreLiteral, ScriptDirPath, vscodePath, extensionsPath }

\* The project files present or missing in every combination.
DiskInputs ==
  { [p \in TextPaths |->
       CASE p = beforeMainJSPath -> js
         [] p = afterMainTSPath -> ts
         [] p = appSveltePath -> app
         [] p = rollupConfigPath -> rollup
         [] p = tsconfigPath -> tsc
         [] OTHER -> Absent] :
      js \in { Absent, File(MainJSText), File(<< "x" >>) },
      ts \in { Absent, File(<< "old main.ts" >>) },
      app \in { Absent, File(AppTemplate), File(<< "x" >>) },
      rollup \in { Absent, File(RollupTemplate) },
      tsc \in { Absent, File(<< "old tsconfig" >>) } }

ScriptDirInputs ==
  { {ScriptFile} \cup s : s \in SUBSET { DSStoreLiteral, DSStoreMac, "other.js" } }

\* What every initial state shares: nothing has run yet.
InitRun ==
  /\ pc = "idle"
  /\ failedAt = ""
  /\ run = 0
  /\ packageJSON = NoManifest("unset")
  /\ appFile = <<>>
  /\ rollupConfig = <<>>
  /\ out = <<>>
  /\ scriptDirExists = TRUE
  /\ orig = Snapshot

\* Any manifest, any argument, the template otherwise.
InitManifest ==
  /\ pkg \in ManifestInputs
  /\ argv2 \in ArgValues
  /\ disk = DiskTemplate
  /\ vscode = "absent"
  /\ nodeModules = FALSE
  /\ scriptDir = {ScriptFile}
  /\ denied = "none"

\* Any App.svelte, the template otherwise.
InitApp ==
  /\ pkg = ManifestTemplate
  /\ argv2 = << "test-template" >>
  /\ disk \in { [DiskTemplate EXCEPT ![appSveltePath] = File(t)] : t \in AppInputs }
  /\ vscode = "absent"
  /\ nodeModules = FALSE
  /\ scriptDir = {ScriptFile}
  /\ denied = "none"

\* Any rollup.config.js, the template otherwise.
InitRollup ==
  /\ pkg = ManifestTemplate
  /\ argv2 = << "test-template" >>
  /\ disk \in { [DiskTemplate EXCEPT ![rollupConfigPath] = File(t)] : t \in RollupInputs }
  /\ vscode = "absent"
  /\ nodeModules = FALSE
  /\ scriptDir = {ScriptFile}
  /\ denied = "none"

\* Project files present or missing, one path refused by the platform.
InitDisk ==
  /\ pkg \in { NoManifest("absent"), ManifestTemplate }
  /\ argv2 \in { NoArg, << "test-template" >> }
  /\ disk \in DiskInputs
  /\ vscode \in { "absent", "dir", "file" }
  /\ nodeModules \in BOOLEAN
  /\ scriptDir = {ScriptFile}
  /\ denied \in DeniablePaths \cup {"none"}

\* Any content of the script's directory, any argument.
InitScriptDir ==
  /\ pkg = ManifestTemplate
  /\ argv2 \in ArgValues
  /\ disk = DiskTemplate
  /\ vscode = "absent"
  /\ nodeModules \in BOOLEAN
  /\ scriptDir \in ScriptDirInputs
  /\ denied \in { "none", ScriptFile, DSStoreLiteral, ScriptDirPath }

Init ==
  /\ \/ InitManifest
     \/ InitApp
     \/ InitRollup
     \/ InitDisk
     \/ InitScriptDir
  /\ InitRun

\* ------------------------------------------------------------ actions
\* An uncaught exception at statement `at`: the process ends there, the disk
\* stays as the statements before it left it.
Throw(at) ==
  /\ pc' = "failed"
  /\ failedAt' = at
  /\ UNCHANGED << run, argv2, pkg, disk, vscode, nodeModules, scriptDir,
                  scriptDirExists, denied, packageJSON, appFile, rollupConfig,
                  out, orig >>

\* The statement at `at` is done; `next` is the one after it.
Goto(next) == pc' = next /\ failedAt' = failedAt

WriteTextFileIgnoringErrors(at, path, text, next) ==
  /\ pc = at
  /\ disk' = IF denied = path THEN disk ELSE [disk EXCEPT ![path] = File(text)]
  /\ Goto(next)
  /\ UNCHANGED << run, argv2, pkg, vscode, nodeModules, scriptDir,
                  scriptDirExists, denied, packageJSON, appFile, rollupConfig,
                  out, orig >>

\* fs.writeFileSync(path, text) on one of the project's text files.
WriteTextFile(at, path, text, next) ==
  /\ pc = at
  /\ IF denied = path
       THEN Throw(at)
       ELSE /\ disk' = [disk EXCEPT ![path] = File(text)]
            /\ Goto(next)
            /\ UNCHANGED << run, argv2, pkg, vscode, nodeModules, scriptDir,
                            scriptDirExists, denied, packageJSON, appFile,
                            rollupConfig, out, orig >>

\* `node scripts/setupTypeScript.js [dir]`: the script's file has to exist.  A
\* later run is the same command again, on the disk the run before it left.
Invoke ==
  /\ pc \in { "idle", "done", "failed" }
  /\ run < MaxRuns
  /\ scriptDirExists
  /\ ScriptFile \in scriptDir
  /\ pc' = "readPackage"
  /\ failedAt' = ""
  /\ run' = run + 1
  /\ packageJSON' = NoManifest("unset")
  /\ appFile' = <<>>
  /\ rollupConfig' = <<>>
  /\ out' = <<>>
  /\ orig' = Snapshot
  /\ UNCHANGED << argv2, pkg, disk, vscode, nodeModules, scriptDir,
                  scriptDirExists, denied >>

\* Line 40: JSON.parse(fs.readFileSync(package.json)).
ReadPackage ==
  /\ pc = "readPackage"
  /\ IF pkg.kind \in { "absent", "malformed" }
       THEN Throw("readPackage")
       ELSE /\ packageJSON' = pkg
            /\ Goto("assignDevDependencies")
            /\ UNCHANGED << run, argv2, pkg, disk, vscode, nodeModules, scriptDir,
                            scriptDirExists, denied, appFile, rollupConfig, out,
                            orig >>

\* Lines 43-50.  A manifest that is null, a number or an array has no
\* devDependencies to assign to.
AssignDevDependencies ==
  /\ pc = "assignDevDependencies"
  /\ IF packageJSON.kind # "object" \/ AssignThrows(packageJSON.dev)
       THEN Throw("assignDevDependencies")
       ELSE /\ packageJSON' =
                 [packageJSON EXCEPT !.dev = ObjectAssign(@, DevDependenciesToAdd)]
            /\ Goto("assignScripts")
            /\ UNCHANGED << run, argv2, pkg, disk, vscode, nodeModules, scriptDir,
                            scriptDirExists, denied, appFile, rollupConfig, out,
                            orig >>

\* Lines 54-56.
AssignScripts ==
  /\ pc = "assignScripts"
  /\ IF AssignThrows(packageJSON.scripts)
       THEN Throw("assignScripts")
       ELSE /\ packageJSON' =
                 [packageJSON EXCEPT !.scripts = ObjectAssign(@, ScriptsToAdd)]
            /\ Goto("writePackage")
            /\ UNCHANGED << run, argv2, pkg, disk, vscode, nodeModules, scriptDir,
                            scriptDirExists, denied, appFile, rollupConfig, out,
                            orig >>

\* Line 60: the file holds what JSON.stringify writes of packageJSON.
WritePackage ==
  /\ pc = "writePackage"
  /\ IF denied = PackagePath
       THEN Throw("writePackage")
       ELSE /\ pkg' = Manifest("object", Stringify(packageJSON.dev),
                               Stringify(packageJSON.scripts), packageJSON.name)
            /\ Goto("renameMain")
            /\ UNCHANGED << run, argv2, disk, vscode, nodeModules, scriptDir,
                            scriptDirExists, denied, packageJSON, appFile,
                            rollupConfig, out, orig >>

RenameMainKeepSource ==
  /\ pc = "renameMain"
  /\ IF ~Exists(disk[beforeMainJSPath])
       THEN Throw("renameMain")
       ELSE /\ disk' = [disk EXCEPT ![afterMainTSPath] = disk[beforeMainJSPath]]
            /\ Goto("readApp")
            /\ UNCHANGED << run, argv2, pkg, vscode, nodeModules, scriptDir,
                            scriptDirExists, denied, packageJSON, appFile,
                            rollupConfig, out, orig >>

\* Line 70: fs.renameSync throws when src/main.js is missing and replaces
\* src/main.ts when that exists.
RenameMain ==
  /\ pc = "renameMain"
  /\ IF ~Exists(disk[beforeMainJSPath])
       THEN Throw("renameMain")
       ELSE /\ disk' = [disk EXCEPT ![afterMainTSPath] = disk[beforeMainJSPath],
                                    ![beforeMainJSPath] = Absent]
            /\ Goto("readApp")
            /\ UNCHANGED << run, argv2, pkg, vscode, nodeModules, scriptDir,
                            scriptDirExists, denied, packageJSON, appFile,
                            rollupConfig, out, orig >>

ReadAppRequiringAnchors ==
  /\ pc = "readApp"
  /\ IF \/ ~Exists(disk[appSveltePath])
        \/ ~Contains(disk[appSveltePath][1], ScriptTag)
        \/ ~Contains(disk[appSveltePath][1], ExportName)
       THEN Throw("readApp")
       ELSE /\ appFile' = EditAppText(disk[appSveltePath][1])
            /\ Goto("writeApp")
            /\ UNCHANGED << run, argv2, pkg, disk, vscode, nodeModules, scriptDir,
                            scriptDirExists, denied, packageJSON, rollupConfig,
                            out, orig >>

\* Lines 77-83: read App.svelte and make the two replacements.
ReadApp ==
  /\ pc = "readApp"
  /\ IF ~Exists(disk[appSveltePath])
       THEN Throw("readApp")
       ELSE /\ appFile' = EditAppText(disk[appSveltePath][1])
            /\ Goto("writeApp")
            /\ UNCHANGED << run, argv2, pkg, disk, vscode, nodeModules, scriptDir,
                            scriptDirExists, denied, packageJSON, rollupConfig,
                            out, orig >>

\* Line 86.
WriteApp == WriteTextFile("writeApp", appSveltePath, appFile, "readRollup")

\* Lines 93-117: read rollup.config.js and make the four replacements.
ReadRollup ==
  /\ pc = "readRollup"
  /\ IF ~Exists(disk[rollupConfigPath])
       THEN Throw("readRollup")
       ELSE /\ rollupConfig' = EditRollupText(disk[rollupConfigPath][1])
            /\ Goto("writeRollup")
            /\ UNCHANGED << run, argv2, pkg, disk, vscode, nodeModules, scriptDir,
                            scriptDirExists, denied, packageJSON, appFile, out,
                            orig >>

\* Line 120.
WriteRollup ==
  WriteTextFile("writeRollup", rollupConfigPath, rollupConfig, "writeTsconfig")

\* Line 135.
WriteTsconfig ==
  WriteTextFile("writeTsconfig", tsconfigPath, tsconfig[1], "writeSvelteConfig")

\* Line 150.
WriteSvelteConfig ==
  WriteTextFile("writeSvelteConfig", svelteConfigPath, svelteConfig[1], "writeDts")

\* Line 157.
WriteDts == WriteTextFile("writeDts", dtsPath, dtsText[1], "unlinkSelf")

\* Line 161: the block is skipped when argv[2] is truthy.
SkipsSelfDeletion(a) == Truthy(a)

\* Lines 161-164: fs.unlinkSync(__filename).
UnlinkSelf ==
  /\ pc = "unlinkSelf"
  /\ IF SkipsSelfDeletion(argv2)
       THEN /\ Goto("mkdirVscode")
            /\ UNCHANGED << run, argv2, pkg, disk, vscode, nodeModules, scriptDir,
                            scriptDirExists, denied, packageJSON, appFile,
                            rollupConfig, out, orig >>
       ELSE IF denied = ScriptFile
         THEN Throw("unlinkSelf")
         ELSE /\ scriptDir' = scriptDir \ {ScriptFile}
              /\ Goto("unlinkDSStore")
              /\ UNCHANGED << run, argv2, pkg, disk, vscode, nodeModules,
                              scriptDirExists, denied, packageJSON, appFile,
                              rollupConfig, out, orig >>

\* Line 171: remainingFiles.length === 1 && remainingFiles[0] === '.DS_store'.
IsOnlyMetadataFile(remainingFiles) == remainingFiles = {DSStoreLiteral}

\* Lines 168-174.
UnlinkDSStore ==
  /\ pc = "unlinkDSStore"
  /\ IF IsOnlyMetadataFile(scriptDir)
       THEN IF denied = DSStoreLiteral
              THEN Throw("unlinkDSStore")
              ELSE /\ scriptDir' = {}
                   /\ Goto("rmdirScripts")
                   /\ UNCHANGED << run, argv2, pkg, disk, vscode, nodeModules,
                                   scriptDirExists, denied, packageJSON, appFile,
                                   rollupConfig, out, orig >>
       ELSE /\ Goto("rmdirScripts")
            /\ UNCHANGED << run, argv2, pkg, disk, vscode, nodeModules, scriptDir,
                            scriptDirExists, denied, packageJSON, appFile,
                            rollupConfig, out, orig >>

\* Lines 177-180.
RmdirScripts ==
  /\ pc = "rmdirScripts"
  /\ IF scriptDir = {}
       THEN IF denied = ScriptDirPath
              THEN Throw("rmdirScripts")
              ELSE /\ scriptDirExists' = FALSE
                   /\ Goto("mkdirVscode")
                   /\ UNCHANGED << run, argv2, pkg, disk, vscode, nodeModules,
                                   scriptDir, denied, packageJSON, appFile,
                                   rollupConfig, out, orig >>
       ELSE /\ Goto("mkdirVscode")
            /\ UNCHANGED << run, argv2, pkg, disk, vscode, nodeModules, scriptDir,
                            scriptDirExists, denied, packageJSON, appFile,
                            rollupConfig, out, orig >>

\* Line 184: mkdirSync with recursive: true accepts an existing directory and
\* throws when .vscode is a file.
MkdirVscode ==
  /\ pc = "mkdirVscode"
  /\ IF vscode = "file" \/ (vscode = "absent" /\ denied = vscodePath)
       THEN Throw("mkdirVscode")
       ELSE /\ vscode' = "dir"
            /\ Goto("writeExtensions")
            /\ UNCHANGED << run, argv2, pkg, disk, nodeModules, scriptDir,
                            scriptDirExists, denied, packageJSON, appFile,
                            rollupConfig, out, orig >>

\* Lines 187-190.
WriteExtensions ==
  WriteTextFile("writeExtensions", extensionsPath, extensionsText[1], "log")

\* Lines 193-199.
Log ==
  /\ pc = "log"
  /\ out' = << ConvertedMessage >>
              \o (IF nodeModules THEN << ReinstallMessage >> ELSE <<>>)
  /\ Goto("done")
  /\ UNCHANGED << run, argv2, pkg, disk, vscode, nodeModules, scriptDir,
                  scriptDirExists, denied, packageJSON, appFile, rollupConfig,
                  orig >>

Next ==
  \/ Invoke
  \/ ReadPackage
  \/ AssignDevDependencies
  \/ AssignScripts
  \/ WritePackage
  \/ RenameMain
  \/ ReadApp
  \/ WriteApp
  \/ ReadRollup
  \/ WriteRollup
  \/ WriteTsconfig
  \/ WriteSvelteConfig
  \/ WriteDts
  \/ UnlinkSelf
  \/ UnlinkDSStore
  \/ RmdirScripts
  \/ MkdirVscode
  \/ WriteExtensions
  \/ Log

Spec == Init /\ [][Next]_vars

\* ----------------------------------------------------------- progress
\* The statements in source order.
Order ==
  << "idle", "readPackage", "assignDevDependencies", "assignScripts",
     "writePackage", "renameMain", "readApp", "writeApp", "readRollup",
     "writeRollup", "writeTsconfig", "writeSvelteConfig", "writeDts",
     "unlinkSelf", "unlinkDSStore", "rmdirScripts", "mkdirVscode",
     "writeExtensions", "log", "done" >>
Pos(l) == CHOOSE i \in 1..Len(Order) : Order[i] = l
\* The statement the run is at, or was at when it threw.
At == IF pc = "failed" THEN failedAt ELSE pc
\* The run has gone past statement l without an error there.
Completed(l) == Pos(At) > Pos(l)

\* A property that is missing from the manifest, or null.
MissingOrNull(v) == v.t = "undefined" \/ v.t = "null"

HasKeys(m, source) ==
  \A k \in DOMAIN source : k \in DOMAIN m /\ m[k] = source[k]
KeepsOtherKeys(m, before, source) ==
  /\ \A k \in DOMAIN before \ DOMAIN source : k \in DOMAIN m /\ m[k] = before[k]
  /\ DOMAIN m = DOMAIN before \cup DOMAIN source

\* package.json held an object whose devDependencies and scripts are objects.
ManifestHadMaps ==
  /\ orig.pkg.kind = "object"
  /\ orig.pkg.dev.t = "map"
  /\ orig.pkg.scripts.t = "map"

C9_MainRenamed ==
  /\ pc = "done" =>
       /\ ~Exists(disk[beforeMainJSPath])
       /\ Exists(orig.disk[beforeMainJSPath])
       /\ disk[afterMainTSPath] = orig.disk[beforeMainJSPath]
  /\ (pc # "idle" /\ ~Exists(orig.disk[beforeMainJSPath])) =>
       ~Completed("renameMain")
  /\ failedAt = "renameMain" => ~Exists(orig.disk[beforeMainJSPath])

\* A conversion that replaced an older src/main.ts by the content of src/main.js.
C9_Witness ==
  /\ pc = "done"
  /\ Exists(orig.disk[afterMainTSPath])
  /\ orig.disk[afterMainTSPath] # orig.disk[beforeMainJSPath]
  /\ disk[afterMainTSPath] = File(MainJSText)

\* A run that threw at the rename because src/main.js was missing.
C9_WitnessMissing ==
  /\ pc = "failed"
  /\ failedAt = "renameMain"
  /\ run = 1

\* ------------------------------------------- the disk, step by step
\* What the statements completed so far have made of the disk the run started
\* on: each file a completed statement wrote holds what that statement writes,
\* every other file is as it was.
ExpectedPkg ==
  IF Completed("writePackage")
    THEN Manifest("object",
                  Stringify(ObjectAssign(orig.pkg.dev, DevDependenciesToAdd)),
                  Stringify(ObjectAssign(orig.pkg.scripts, ScriptsToAdd)),
                  orig.pkg.name)
    ELSE orig.pkg

ExpectedFile(p) ==
  CASE p = beforeMainJSPath ->
         IF Completed("renameMain") THEN Absent ELSE orig.disk[p]
    [] p = afterMainTSPath ->
         IF Completed("renameMain") THEN orig.disk[beforeMainJSPath] ELSE orig.disk[p]
    [] p = appSveltePath ->
         IF Completed("writeApp") THEN File(EditAppText(orig.disk[p][1])) ELSE orig.disk[p]
    [] p = rollupConfigPath ->
         IF Completed("writeRollup") THEN File(EditRollupText(orig.disk[p][1]))
         ELSE orig.disk[p]
    [] p = tsconfigPath ->
         IF Completed("writeTsconfig") THEN tsconfig ELSE orig.disk[p]
    [] p = svelteConfigPath ->
         IF Completed("writeSvelteConfig") THEN svelteConfig ELSE orig.disk[p]
    [] p = dtsPath ->
         IF Completed("writeDts") THEN dtsText ELSE orig.disk[p]
    [] p = extensionsPath ->
         IF Completed("writeExtensions") THEN extensionsText ELSE orig.disk[p]

ExpectedVscode == IF Completed("mkdirVscode") THEN "dir" ELSE orig.vscode

ExpectedScriptDir ==
  IF Truthy(argv2) \/ ~Completed("unlinkSelf")
    THEN orig.scriptDir
    ELSE LET remainingFiles == orig.scriptDir \ {ScriptFile}
         IN  IF Completed("unlinkDSStore") /\ remainingFiles = {DSStoreLiteral}
               THEN {}
               ELSE remainingFiles

ExpectedScriptDirExists ==
  IF ~Truthy(argv2) /\ Completed("rmdirScripts") /\ ExpectedScriptDir = {}
    THEN FALSE
    ELSE orig.scriptDirExists

\* No statement whose file system call or parse fails has been passed.
NoFailedStatementPassed ==
  /\ Completed("readPackage") => orig.pkg.kind \notin { "absent", "malformed" }
  /\ Completed("assignDevDependencies") =>
       orig.pkg.kind = "object" /\ ~MissingOrNull(orig.pkg.dev)
  /\ Completed("assignScripts") => ~MissingOrNull(orig.pkg.scripts)
  /\ Completed("writePackage") => denied # PackagePath
  /\ Completed("renameMain") => Exists(orig.disk[beforeMainJSPath])
  /\ Completed("readApp") => Exists(orig.disk[appSveltePath])
  /\ Completed("writeApp") => denied # appSveltePath
  /\ Completed("readRollup") => Exists(orig.disk[rollupConfigPath])
  /\ Completed("writeRollup") => denied # rollupConfigPath
  /\ Completed("writeTsconfig") => denied # tsconfigPath
  /\ Completed("writeSvelteConfig") => denied # svelteConfigPath
  /\ Completed("writeDts") => denied # dtsPath
  /\ (Completed("unlinkSelf") /\ ~Truthy(argv2)) => denied # ScriptFile
  /\ Completed("mkdirVscode") =>
       orig.vscode # "file" /\ (orig.vscode = "absent" => denied # vscodePath)
  /\ Completed("writeExtensions") => denied # extensionsPath

\* C3: a failing file system or parse step ends the run: no statement after it
\* has acted and nothing was logged, and what the statements before it wrote or
\* renamed stays converted.
C3_AbortKeepsEarlierSteps ==
  /\ pc # "idle" => NoFailedStatementPassed
  /\ pc = "failed" =>
       /\ out = <<>>
       /\ pkg = ExpectedPkg
       /\ \A p \in TextPaths : disk[p] = ExpectedFile(p)
       /\ vscode = ExpectedVscode
       /\ scriptDir = ExpectedScriptDir
       /\ scriptDirExists = ExpectedScriptDirExists

\* A first run that threw at the write of tsconfig.json, with package.json,
\* src/main.ts, src/App.svelte and rollup.config.js already converted and
\* svelte.config.js not written.
C3_Witness ==
  /\ pc = "failed"
  /\ failedAt = "writeTsconfig"
  /\ run = 1
  /\ pkg # orig.pkg
  /\ ~Exists(disk[beforeMainJSPath])
  /\ disk[appSveltePath] # orig.disk[appSveltePath]
  /\ disk[rollupConfigPath] # orig.disk[rollupConfigPath]
  /\ disk[tsconfigPath] = orig.disk[tsconfigPath]
  /\ ~Exists(disk[svelteConfigPath])

\* C10 as stated: a manifest that parses but whose devDependencies or scripts
\* is not a map makes the merge throw before anything is written.
C10_Original ==
  (/\ pc # "idle"
   /\ orig.pkg.kind \in { "object", "nonobject" }
   /\ ~ManifestHadMaps) =>
    /\ ~Completed("assignScripts")
    /\ pkg = orig.pkg
    /\ disk = orig.disk

\* The manifest parses and Object.assign rejects its devDependencies or its
\* scripts: the manifest is not an object, or the property is missing or null.
MergeRejectsManifest ==
  /\ orig.pkg.kind \in { "object", "nonobject" }
  /\ \/ orig.pkg.kind = "nonobject"
     \/ MissingOrNull(orig.pkg.dev)
     \/ MissingOrNull(orig.pkg.scripts)

\* C10 (amended): when the manifest parses but its devDependencies or scripts
\* property is missing or null, the merge throws and the run ends before any
\* file of the target directory is written, renamed or deleted.
C10_MergeThrowsBeforeAnyWrite ==
  (pc # "idle" /\ MergeRejectsManifest) =>
    /\ ~Completed("assignScripts")
    /\ pc = "failed" => failedAt \in { "assignDevDependencies", "assignScripts" }
    /\ out = <<>>
    /\ pkg = orig.pkg
    /\ disk = orig.disk
    /\ vscode = orig.vscode
    /\ scriptDir = orig.scriptDir
    /\ scriptDirExists = orig.scriptDirExists

\* A run that merged devDependencies in memory, threw on the missing scripts
\* map, and left package.json as it was.
C10_Witness ==
  /\ pc = "failed"
  /\ failedAt = "assignScripts"
  /\ orig.pkg.scripts.t = "undefined"
  /\ packageJSON.dev # orig.pkg.dev
  /\ pkg = orig.pkg

\* ------------------------------------------------------ text edits
\* text with tok put in after its i-th token.
InsertAfter(text, i, tok) ==
  SubSeq(text, 1, i) \o << tok >> \o SubSeq(text, i + 1, Len(text))

\* App.svelte as the run found it and as it is now.
AppBefore == orig.disk[appSveltePath][1]
AppNow == disk[appSveltePath][1]

\* old with lang="ts" put into its first <script> tag and : string into its
\* first export let name; declaration, every other token in place.
AppWithAnnotations(old) ==
  LET t1 == InsertAfter(old, IndexOf(old, ScriptTag), ScriptTagTS[2])
  IN  InsertAfter(t1, IndexOf(t1, ExportName), ExportNameTS[2])

\* The run has written App.svelte, which held both substrings.
AppConvertedWithBoth ==
  /\ pc # "idle"
  /\ Completed("writeApp")
  /\ Contains(AppBefore, ScriptTag)
  /\ Contains(AppBefore, ExportName)

\* C6 as stated: a component file holding <script> and export let name; holds
\* <script lang="ts"> and export let name: string; exactly once each after the
\* conversion, the rest unchanged.
C6_Original ==
  AppConvertedWithBoth =>
    /\ Count(AppNow, ScriptTagTS) = 1
    /\ Count(AppNow, ExportNameTS) = 1
    /\ AppNow = AppWithAnnotations(AppBefore)

\* C6 (amended): a component file holding <script> and export let name; holds
\* one more <script lang="ts"> and one more export let name: string; after the
\* conversion than before (exactly one each when it held none): the first
\* <script> and the first export let name; are the ones replaced, and every
\* other part of the file is unchanged.
C6_AppAnnotatedOnce ==
  AppConvertedWithBoth =>
    /\ Count(AppNow, ScriptTagTS) = Count(AppBefore, ScriptTagTS) + 1
    /\ Count(AppNow, ExportNameTS) = Count(AppBefore, ExportNameTS) + 1
    /\ Count(AppNow, ScriptTag) + 1 = Count(AppBefore, ScriptTag)
    /\ Count(AppNow, ExportName) + 1 = Count(AppBefore, ExportName)
    /\ (Count(AppBefore, ScriptTagTS) = 0 => Count(AppNow, ScriptTagTS) = 1)
    /\ (Count(AppBefore, ExportNameTS) = 0 => Count(AppNow, ExportNameTS) = 1)
    /\ AppNow = AppWithAnnotations(AppBefore)

\* A converted file with two <script> tags, of which the first was rewritten.
C6_Witness ==
  /\ AppConvertedWithBoth
  /\ pc = "done"
  /\ Count(AppBefore, ScriptTag) = 2
  /\ Count(AppNow, ScriptTag) = 1
  /\ Count(AppNow, ScriptTagTS) = 1
  /\ Count(AppNow, ExportNameTS) = 1

\* App.svelte exists and holds neither <script> nor export let name;.
AppWithoutAnchors ==
  /\ pc # "idle"
  /\ Exists(orig.disk[appSveltePath])
  /\ ~Contains(AppBefore, ScriptTag)
  /\ ~Contains(AppBefore, ExportName)

\* C8: a component file holding neither substring raises no error, is written
\* back as it was, and the later steps (rollup.config.js edit, the new config
\* files, the completion message) run.
C8_MissingAnchorsAreSilent ==
  AppWithoutAnchors =>
    /\ failedAt # "readApp"
    /\ (Completed("readApp") /\ denied # appSveltePath) => failedAt # "writeApp"
    /\ Completed("writeApp") => disk[appSveltePath] = orig.disk[appSveltePath]
    /\ pc = "done" =>
         /\ disk[rollupConfigPath] = File(EditRollupText(orig.disk[rollupConfigPath][1]))
         /\ disk[tsconfigPath] = tsconfig
         /\ disk[svelteConfigPath] = svelteConfig
         /\ disk[dtsPath] = dtsText
         /\ out # <<>>
         /\ out[1] = ConvertedMessage

\* A finished conversion of a component file that held half of each substring.
C8_Witness ==
  /\ AppWithoutAnchors
  /\ pc = "done"
  /\ AppBefore = << "<script", "export let name", "x" >>
  /\ disk[rollupConfigPath] # orig.disk[rollupConfigPath]
  /\ out = << ConvertedMessage >>

\* rollup.config.js as the run found it and as it is now.
RollupBefore == orig.disk[rollupConfigPath][1]
RollupNow == disk[rollupConfigPath][1]

\* old with the import lines after its first css-only import, its first
\* 'src/main.js' turned into 'src/main.ts', the preprocess line before its first
\* compilerOptions: and the typescript plugin after its first commonjs(), and
\* every other token in place.
RollupWithInsertions(old) ==
  LET t1 == InsertAfter(old, IndexOf(old, CssOnlyAnchor), ImportLines[1])
      t2 == [t1 EXCEPT ![IndexOf(t1, MainJSAnchor)] = MainTSString[1]]
      t3 == InsertAfter(t2, IndexOf(t2, CompilerOptionsAnchor) - 1, PreprocessLine[1])
  IN  InsertAfter(t3, IndexOf(t3, CommonjsAnchor), TypescriptPlugin[1])

\* The run has written rollup.config.js, which held the four anchors.
RollupConvertedWithAnchors ==
  /\ pc # "idle"
  /\ Completed("writeRollup")
  /\ Contains(RollupBefore, CssOnlyAnchor)
  /\ Contains(RollupBefore, MainJSAnchor)
  /\ Contains(RollupBefore, CompilerOptionsAnchor)
  /\ Contains(RollupBefore, CommonjsAnchor)

\* C7: one conversion of a rollup.config.js holding the four anchors puts the
\* two import lines right after the first css-only import, turns the first
\* 'src/main.js' into 'src/main.ts', puts the preprocess line right before the
\* first compilerOptions: and the typescript plugin right after the first
\* commonjs(), each once, and changes nothing else.
C7_RollupEditedOnce ==
  RollupConvertedWithAnchors =>
    /\ Count(RollupNow, ImportLines) = Count(RollupBefore, ImportLines) + 1
    /\ Count(RollupNow, PreprocessLine) = Count(RollupBefore, PreprocessLine) + 1
    /\ Count(RollupNow, TypescriptPlugin) = Count(RollupBefore, TypescriptPlugin) + 1
    /\ Count(RollupNow, MainTSString) = Count(RollupBefore, MainTSString) + 1
    /\ Count(RollupNow, MainJSAnchor) + 1 = Count(RollupBefore, MainJSAnchor)
    /\ IndexOf(RollupNow, CssOnlyAnchor \o ImportLines) = IndexOf(RollupNow, CssOnlyAnchor)
    /\ IndexOf(RollupNow, PreprocessLine \o CompilerOptionsAnchor) + 1
         = IndexOf(RollupNow, CompilerOptionsAnchor)
    /\ IndexOf(RollupNow, CommonjsAnchor \o TypescriptPlugin)
         = IndexOf(RollupNow, CommonjsAnchor)
    /\ Len(RollupNow) = Len(RollupBefore) + 3
    /\ RollupNow = RollupWithInsertions(RollupBefore)

\* The template's rollup.config.js after a finished conversion.
C7_Witness ==
  /\ RollupConvertedWithAnchors
  /\ pc = "done"
  /\ RollupBefore = RollupTemplate
  /\ RollupNow =
       << "x", CssOnlyAnchor[1], ImportLines[1], "x", MainTSString[1], "x",
          MainTSString[1], "x", PreprocessLine[1], CompilerOptionsAnchor[1], "x",
          CommonjsAnchor[1], TypescriptPlugin[1], "x" >>

\* C2 as stated: a second run on an already converted project finds the
\* anchors again and appends a second set of insertions to rollup.config.js.
C2_Original ==
  (/\ orig.after = "done"
   /\ pc \in { "done", "failed" }
   /\ Contains(RollupBefore, CssOnlyAnchor)) =>
    Count(RollupNow, ImportLines) = Count(RollupBefore, ImportLines) + 1

\* C2 (amended): a second run on an already converted project throws at the
\* rename, src/main.js being gone, and leaves rollup.config.js and every other
\* file as the first run wrote them.  The edit of rollup.config.js itself is
\* not idempotent: whenever a run reaches it, each of the css-only,
\* compilerOptions: and commonjs(), anchors the file holds gets its insertion
\* again, also when the file already holds one.
C2_SecondRunStopsAtRename ==
  /\ orig.after = "done" =>
       /\ ~Completed("renameMain")
       /\ pc = "failed" => failedAt = "renameMain"
       /\ pkg = orig.pkg
       /\ disk = orig.disk
  /\ (pc # "idle" /\ Completed("writeRollup")) =>
       /\ Contains(RollupBefore, CssOnlyAnchor) =>
            Count(RollupNow, ImportLines) = Count(RollupBefore, ImportLines) + 1
       /\ Contains(RollupBefore, CompilerOptionsAnchor) =>
            Count(RollupNow, PreprocessLine) = Count(RollupBefore, PreprocessLine) + 1
       /\ Contains(RollupBefore, CommonjsAnchor) =>
            Count(RollupNow, TypescriptPlugin) = Count(RollupBefore, TypescriptPlugin) + 1

\* The second run on the converted template, ended at the rename with the
\* single set of insertions of the first run.
C2_Witness ==
  /\ run = 2
  /\ orig.after = "done"
  /\ pc = "failed"
  /\ failedAt = "renameMain"
  /\ pkg = orig.pkg
  /\ Count(RollupNow, CssOnlyAnchor) = 1
  /\ Count(RollupNow, ImportLines) = 1
  /\ Count(RollupNow, TypescriptPlugin) = 1

\* A run on a rollup.config.js that already held the import lines after its
\* css-only import, which now holds them twice.
C2_WitnessDuplicate ==
  /\ pc = "done"
  /\ IndexOf(RollupBefore, CssOnlyAnchor \o ImportLines) # 0
  /\ Count(RollupBefore, ImportLines) = 1
  /\ Count(RollupNow, ImportLines) = 2

\* ----------------------------------------------------- self-deletion
\* The script's directory is as the run found it.
ScriptDirUntouched ==
  /\ scriptDirExists
  /\ scriptDir = orig.scriptDir
  /\ ScriptFile \in scriptDir

\* C4: when an argument is given, whatever its value, the script's file, its
\* directory and a .DS_store in it are never deleted.
C4_ArgumentKeepsScript ==
  argv2 # NoArg => ScriptDirUntouched

\* C4 for the arguments line 161 takes for one: a non-empty argument keeps the
\* script, its directory and everything in it.
C4_NonEmptyArgumentKeepsScript ==
  Truthy(argv2) => ScriptDirUntouched

\* The script's directory held the script alone, or the script and one
\* metadata file: macOS's .DS_Store, or a file named .DS_store.
ScriptAloneOrWithMetadata(metadata) ==
  orig.scriptDir \in { {ScriptFile} } \cup { {ScriptFile, f} : f \in metadata }

\* C5: a run without argument on a script directory holding the script alone,
\* or the script and one OS metadata file, deletes the script, then the
\* metadata file, then the empty directory; with any other entry left the
\* directory stays, without the script.
C5_SelfDeletion ==
  (/\ argv2 = NoArg
   /\ pc # "idle"
   /\ Completed("rmdirScripts")) =>
    IF ScriptAloneOrWithMetadata({ DSStoreMac, DSStoreLiteral })
      THEN scriptDir = {} /\ ~scriptDirExists
      ELSE scriptDirExists /\ scriptDir = orig.scriptDir \ {ScriptFile}

\* C5 for a metadata file named .DS_store, as line 171 spells it: the script,
\* that file and the directory are deleted; anything else in the directory
\* keeps it, macOS's .DS_Store included.
C5_SelfDeletionOfLiteralName ==
  (/\ argv2 = NoArg
   /\ pc # "idle"
   /\ Completed("rmdirScripts")) =>
    IF ScriptAloneOrWithMetadata({ DSStoreLiteral })
      THEN scriptDir = {} /\ ~scriptDirExists
      ELSE scriptDirExists /\ scriptDir = orig.scriptDir \ {ScriptFile}

====
